---- MODULE Spec2Model ----
(***************************************************************************)
(* Batch evaluation pipeline of pain_narratives: BatchProcessor.run_batch  *)
(* and run_batch_with_existing_narratives (batch/processor.py) with the    *)
(* retry wrapper, the per-narrative stage chain, the checkpoint file and   *)
(* the experiment-group lifecycle.                                         *)
(*                                                                         *)
(* One behaviour is a sequence of at most MaxRuns invocations of the same  *)
(* entry point on the same input and checkpoint file.  An invocation ends  *)
(* by returning, by raising out of the entry point, or by the process      *)
(* being killed (Crash), which loses every in-memory variable and keeps    *)
(* the checkpoint file and the database.                                   *)
(*                                                                         *)
(* Collaborator calls (model client, database writes, progress callback,   *)
(* checkpoint write) either return or raise; the choice is                 *)
(* nondeterministic.                                                       *)
(***************************************************************************)
EXTENDS Integers, Sequences, FiniteSets, TLC

\* ---------------------------------------------------------------- bounds
NumNarratives == 2
MaxRetriesBound == 2
MaxInterval == 2
MaxRuns == 2
MaxTokens == 3
MaxItems == 2
MaxResponses == 2
MaxIds == 3
MaxUpdates == 2
MaxCreates == 2

\* ------------------------------------------------------------- constants
QTypes == {"PCS", "BPI-IS", "TSK-11SV"}
Stages == <<"dimensions", "PCS", "BPI-IS", "TSK-11SV">>
RunNumber == 2

Keys == 1..NumNarratives

\* BatchProgress(total, processed, successful, failed)
BatchProgress(t, p, s, f) ==
    [total |-> t, processed |-> p, successful |-> s, failed |-> f]

\* A QuestionnaireResult: success, and the attempt that produced it (which
\* stands for that attempt's error text and raw response).
\* bound = FALSE is Python's None / an unassigned local.
QuestionnaireResult(s, a) == [bound |-> TRUE, success |-> s, attempt |-> a]
None == [bound |-> FALSE, success |-> FALSE, attempt |-> 0]

\* What NarrativeEvaluationResult keeps of a QuestionnaireResult that the
\* batch reads afterwards: whether there is one and its success flag.
Stored(r) == [r EXCEPT !.attempt = 0]

\* NarrativeEvaluationResult(narrative_id, narrative_text, experiment_id)
NarrativeEvaluationResult ==
    [dimension_success |-> FALSE,
     dimension_error   |-> FALSE,
     q   |-> [t \in QTypes |-> None],
     qid |-> [t \in QTypes |-> FALSE]]

\* The checkpoint file on disk; exists = FALSE when it was never written.
NoCheckpoint ==
    [exists |-> FALSE, processed_ids |-> <<>>, group_id |-> 0,
     progress |-> BatchProgress(0, 0, 0, 0)]

\* BatchConfig: the fields the batch loop reads.
BatchConfig ==
    [max_retries         : 0..MaxRetriesBound,
     checkpoint_interval : 0..MaxInterval,
     checkpoint_file     : BOOLEAN,
     include_dimensions  : BOOLEAN,
     include_pcs         : BOOLEAN,
     include_bpi_is      : BOOLEAN,
     include_tsk_11sv    : BOOLEAN]

EntryPoints == {"run_batch", "run_batch_with_existing_narratives"}

Range(s) == {s[k] : k \in 1..Len(s)}

\* The keys the loop iterates over.  run_batch: the DataFrame's index
\* labels (a RangeIndex, hence distinct).  run_batch_with_existing_narratives:
\* the narrative_id of each dict of the list; the caller may pass distinct ids
\* or repeat the first id at a later position.
Inputs(e) ==
    IF e = "run_batch"
    THEN {[k \in Keys |-> k]}
    ELSE {[k \in Keys |-> k]}
         \cup {[k \in Keys |-> IF k = d THEN 1 ELSE k] : d \in 2..NumNarratives}

VARIABLES
    config,         \* BatchConfig of the processor
    entry,          \* which entry point the caller uses
    narratives,     \* the input: sequence of keys
    runs,           \* invocations the caller still starts
    pc,             \* position of the current invocation
    resume,         \* resume argument of the current invocation
    checkpoint,     \* local `checkpoint` of the current invocation
    i,              \* position of the for loop in the input
    processed_ids,  \* local list processed_ids
    progress,       \* self.progress
    group_id,       \* local group_id
    stage,          \* index in Stages of the stage being run
    attempt,        \* loop variable of _run_questionnaire_with_retry
    qresult,        \* local `result` of _run_questionnaire_with_retry
    response,       \* what _run_dimension_evaluation parsed from the model
    result,         \* local `result` of process_single_narrative
    checkpoint_file,\* the checkpoint file on disk
    db,             \* the database, as far as the batch writes it
    obs,            \* observations of the current invocation (history)
    api_response,   \* run_questionnaire: what create_completion does
    questionnaire_type, \* run_questionnaire: its questionnaire_type
    returned,       \* run_questionnaire: the QuestionnaireResult returned
    scores,         \* score functions: result.scores of a PCS result
    responses,      \* score functions: result.responses of a BPI-IS result
    computed,       \* score functions: what they returned
    file_text,      \* checkpoint round trip: the text in the checkpoint file
    loaded,         \* checkpoint round trip: what _load_checkpoint returned
    experiment_groups, \* table experiments_groups: the ids of its rows
    links,          \* table experiment_group_users: its rows, oldest first
    update,         \* the latest call of update_user_experiment_groups
    narrative_table,\* table narratives: the narrative_id of its rows
    callers         \* the processes calling create_narrative

vars == <<config, entry, narratives, runs, pc, resume, checkpoint, i,
          processed_ids, progress, group_id, stage, attempt, qresult, response,
          result,
          checkpoint_file, db, obs,
          api_response, questionnaire_type, returned,
          scores, responses, computed, file_text, loaded,
          experiment_groups, links, update, narrative_table, callers>>

\* A direct call of run_questionnaire, outside the batch.
runnervars == <<api_response, questionnaire_type, returned>>

\* Direct calls of the score functions, outside the batch.
scorevars == <<scores, responses, computed>>

\* Direct calls of _save_checkpoint / _load_checkpoint, outside a run.
textvars == <<file_text, loaded>>

\* Direct calls of DatabaseManager methods, outside a run.
tablevars == <<experiment_groups, links, update, narrative_table, callers>>

\* What the batch loop never changes.
cfgvars == <<config, entry, narratives, runnervars, scorevars, textvars,
             tablevars>>
memvars == <<resume, checkpoint, i, processed_ids, progress, group_id, stage,
             attempt, qresult, response, result>>

ResultTypes == {"dimensions"} \cup QTypes

\* The rows of the experiment of the narrative in hand.  The batch never reads
\* or changes the rows of an experiment again once the loop has moved on, so
\* they are dropped from the state at that point.
NoExperiment ==
    [exists |-> FALSE, group |-> 0, narrative |-> 0, repeated |-> 0,
     succeeded |-> FALSE, requests |-> 0,
     questionnaires |-> [t \in QTypes |-> 0],
     evaluations |-> [t \in ResultTypes |-> 0]]

NoDb ==
    [groups |-> 0,
     concluded |-> [g \in 1..MaxRuns |-> 0],
     experiment |-> NoExperiment]

\* What an observer of one invocation has seen (reset when one starts).
\* prev: the keys the invocation before it had handled when it was killed
\* (empty when it returned or raised).
\* For the narrative in hand: ncalls, the invocations of the model client;
\* callstage, the stage of the latest one; flawed, one of them failed or an
\* attempt raised; persist, a persistence write raised.
\* created: the narrative records created for the narrative in hand.
\* twice: an experiment was registered against a narrative id that already
\* had one in this invocation (every id an experiment was registered against
\* is the one in hand or is in handled).
\* dim: what the model call of the dimension evaluation did ("returned" or
\* "raised"); rr: the save_request_response writes issued.
\* slept: the time.sleep calls executed since the latest model-client
\* invocation, by the BatchConfig field that gives their length.
NoObs(prev) ==
    [handled    |-> {},
     groups     |-> 0,
     concluded  |-> 0,
     calls      |-> 0,
     qraised    |-> FALSE,
     ncalls     |-> 0,
     callstage  |-> 0,
     flawed     |-> FALSE,
     persist    |-> FALSE,
     dim        |-> "none",
     rr         |-> 0,
     created    |-> 0,
     twice      |-> FALSE,
     slept      |-> {},
     last       |-> "none",
     exc        |-> "none",
     before     |-> BatchProgress(0, 0, 0, 0),
     file_ids   |-> {},
     prev       |-> prev]

\* ------------------------------------------------ run_questionnaire
\* The text of a model answer, as a sequence of pieces: whitespace, the two
\* markdown fences (three backticks followed by json, three backticks alone),
\* prose without braces, prose with an opening / a closing
\* brace, and complete JSON values: an array and objects by what they hold
\* under 'scores' and 'responses'.
Objects == {"{}", "{scores:{}}", "{scores:[]}", "{responses:[]}",
            "{responses:{}}", "{scores:{},responses:[]}"}

Tokens == {"ws", "fence_json", "fence", "prose", "{x", "x}", "[]"} \cup Objects

Texts == UNION {[1..n -> Tokens] : n \in 0..MaxTokens}

\* What openai_client.create_completion does: it raises, or returns a dict
\* with or without 'choices' (possibly an empty list), a 'message' and a
\* 'content' (possibly null).
ApiResponse(o, c, m, k, t) ==
    [outcome |-> o, choices |-> c, message |-> m, content |-> k, text |-> t]

Responses ==
    {ApiResponse("raises", "missing", "missing", "missing", <<>>),
     ApiResponse("returns", "missing", "missing", "missing", <<>>),
     ApiResponse("returns", "empty", "missing", "missing", <<>>),
     ApiResponse("returns", "list", "missing", "missing", <<>>),
     ApiResponse("returns", "list", "dict", "missing", <<>>),
     ApiResponse("returns", "list", "dict", "null", <<>>)}
    \cup {ApiResponse("returns", "list", "dict", "str", t) : t \in Texts}

\* Python's None, where a string is expected
NoError == "<None>"

EmptyDict == "{}"

\* QuestionnaireResult(questionnaire_type, success, data, raw_response,
\* messages, error) as run_questionnaire builds it
RunnerResult(s, d, e) == [bound |-> TRUE, success |-> s, data |-> d, error |-> e]

Unreturned == [bound |-> FALSE, success |-> FALSE, data |-> EmptyDict, error |-> NoError]

\* str.strip()
RECURSIVE lstrip(_)
lstrip(t) == IF t # <<>> /\ t[1] = "ws" THEN lstrip(Tail(t)) ELSE t

RECURSIVE rstrip(_)
rstrip(t) ==
    IF t # <<>> /\ t[Len(t)] = "ws" THEN rstrip(SubSeq(t, 1, Len(t) - 1)) ELSE t

strip(t) == rstrip(lstrip(t))

\* extract_json_from_text(text)
extract_json_from_text(text) ==
    LET t1 == strip(text)
        t2 == IF t1 # <<>> /\ t1[1] = "fence_json" THEN Tail(t1)
              ELSE IF t1 # <<>> /\ t1[1] = "fence" THEN Tail(t1)
              ELSE t1
        t3 == IF t2 # <<>> /\ t2[Len(t2)] = "fence"
              THEN SubSeq(t2, 1, Len(t2) - 1) ELSE t2
        t4 == strip(t3)
        opens  == {k \in 1..Len(t4) : t4[k] \in Objects \cup {"{x"}}
        closes == {k \in 1..Len(t4) : t4[k] \in Objects \cup {"x}"}}
        start_idx == CHOOSE k \in opens : \A j \in opens : k <= j
        end_idx   == CHOOSE k \in closes : \A j \in closes : k >= j
        t5 == IF opens # {} /\ closes # {} /\ end_idx >= start_idx
              THEN SubSeq(t4, start_idx, end_idx) ELSE t4
    IN  strip(t5)

\* json.loads(text): the value, or "JSONDecodeError"
json_loads(text) ==
    LET u == strip(text)
    IN  IF Len(u) = 1 /\ u[1] \in Objects \cup {"[]"} THEN u[1]
        ELSE "JSONDecodeError"

\* data.get('scores') / data.get('responses') by type
scores_of(d) ==
    CASE d \in {"{scores:{}}", "{scores:{},responses:[]}"} -> "dict"
      [] d = "{scores:[]}" -> "list"
      [] OTHER -> "missing"

responses_of(d) ==
    CASE d \in {"{responses:[]}", "{scores:{},responses:[]}"} -> "list"
      [] d = "{responses:{}}" -> "dict"
      [] OTHER -> "missing"

\* A check that accepts whatever is stored under 'scores'.
IsDict_any(v) == TRUE

\* isinstance(data["scores"], dict)
IsDict(v) == v = "dict"

\* isinstance(data["responses"], list)
IsList(v) == v = "list"

\* parse_questionnaire_response(content, questionnaire_type)
parse_questionnaire_response(content, qt) ==
    IF content = <<>> THEN RunnerResult(FALSE, EmptyDict, "Empty response from API")
    ELSE LET data == json_loads(extract_json_from_text(content))
         IN  IF data = "JSONDecodeError"
             THEN RunnerResult(FALSE, EmptyDict, "Could not parse JSON response")
             ELSE IF data \notin Objects
             THEN RunnerResult(FALSE, EmptyDict, "expected JSON object")
             ELSE IF qt = "PCS"
             THEN IF scores_of(data) = "missing"
                  THEN RunnerResult(FALSE, EmptyDict, "missing 'scores' field")
                  ELSE IF ~IsDict(scores_of(data))
                  THEN RunnerResult(FALSE, EmptyDict, "'scores' should be an object")
                  ELSE RunnerResult(TRUE, data, NoError)
             ELSE IF responses_of(data) = "missing"
                  THEN RunnerResult(FALSE, EmptyDict, "missing 'responses' field")
                  ELSE IF ~IsList(responses_of(data))
                  THEN RunnerResult(FALSE, EmptyDict, "'responses' should be an array")
                  ELSE RunnerResult(TRUE, data, NoError)

\* run_questionnaire(narrative, questionnaire_type, openai_client, ...) with
\* the prompts given: the try block around create_completion, the content
\* lookup and the parse; `except Exception` turns what is raised into a
\* failed result whose error is str(e).
run_questionnaire(resp, qt) ==
    IF resp.outcome = "raises"
    THEN RunnerResult(FALSE, EmptyDict, "str(e) of create_completion")
    ELSE IF resp.choices = "empty"
    THEN RunnerResult(FALSE, EmptyDict, "list index out of range")
    ELSE IF resp.choices = "list" /\ resp.message = "dict" /\ resp.content = "null"
    THEN RunnerResult(FALSE, EmptyDict, "'NoneType' object has no attribute 'strip'")
    ELSE LET content == IF resp.choices = "list" /\ resp.message = "dict"
                           /\ resp.content = "str"
                        THEN strip(resp.text) ELSE <<>>
         IN  IF content = <<>>
             THEN RunnerResult(FALSE, EmptyDict, "Model returned empty response")
             ELSE parse_questionnaire_response(content, qt)

\* ------------------------------------------------ score functions
\* A JSON number is kept in halves (4 is the number 2, 5 is 2.5), so that
\* int() has something to truncate.
int(v) == v \div 2

\* The PCS answers are 0..4 (13 items, total 0-52).
MaxScore == 4

ScoreValues == 0..(2 * MaxScore)

PcsItems == 1..13

\* result.scores: a mapping from item numbers (the keys "1".."13") to
\* values, any item possibly missing: up to MaxItems items, or all 13 with
\* one item answered differently from the others.
PcsScores ==
    UNION {[D -> ScoreValues] :
              D \in {S \in SUBSET PcsItems : Cardinality(S) <= MaxItems}}
    \cup {[k \in PcsItems |-> IF k = j THEN v ELSE w] :
              j \in PcsItems, v \in ScoreValues, w \in ScoreValues}

RECURSIVE SumOver(_, _)
SumOver(f, S) ==
    IF S = {} THEN 0
    ELSE LET k == CHOOSE x \in S : TRUE IN f[k] + SumOver(f, S \ {k})

\* calculate_pcs_total_score: sum(int(score) for score in scores.values())
calculate_pcs_total_score(sc) ==
    SumOver([k \in DOMAIN sc |-> int(sc[k])], DOMAIN sc)

rumination_items == {8, 9, 10, 11}

\* A magnification subscale that leaves item 13 out.
magnification_items_short == {6, 7}

magnification_items == {6, 7, 13}

helplessness_items == {1, 2, 3, 4, 5, 12}

\* sum(int(scores.get(item, 0)) for item in items)
sum_items(sc, items) ==
    SumOver([k \in items |-> int(IF k \in DOMAIN sc THEN sc[k] ELSE 0)], items)

calculate_pcs_subscales(sc) ==
    [rumination    |-> sum_items(sc, rumination_items),
     magnification |-> sum_items(sc, magnification_items),
     helplessness  |-> sum_items(sc, helplessness_items)]

interference_codes ==
    {"BPI_Q1_1", "BPI_Q1_2", "BPI_Q1_3", "BPI_Q1_5", "BPI_Q1_6", "BPI_Q1_7"}

intensity_codes == {"BPI_Q2_8", "BPI_Q3_9", "BPI_Q4_10", "BPI_Q5_11"}

\* The codes a response may carry: the ten above and one that is in
\* neither group.
BpiCodes == interference_codes \cup intensity_codes \cup {"BPI_Q1_4"}

\* The answers are whole numbers 0..10.
BpiValues == {0, 1, 5, 10}

BpiResponse == [code : BpiCodes, value : BpiValues]

\* The ten codes in the order of the questionnaire.
BpiOrder ==
    <<"BPI_Q1_1", "BPI_Q1_2", "BPI_Q1_3", "BPI_Q1_5", "BPI_Q1_6", "BPI_Q1_7",
      "BPI_Q2_8", "BPI_Q3_9", "BPI_Q4_10", "BPI_Q5_11">>

\* result.responses: up to MaxResponses responses of any code (a code may
\* repeat), or the ten codes once each, with one value for the interference
\* items and two alternating values for the intensity items.
BpiResponses ==
    UNION {[1..n -> BpiResponse] : n \in 0..MaxResponses}
    \cup {[k \in 1..10 |->
              [code |-> BpiOrder[k],
               value |-> IF k <= 6 THEN a ELSE IF k % 2 = 1 THEN b ELSE c]] :
           a \in BpiValues, b \in BpiValues, c \in BpiValues}

\* {r.get("code"): r.get("value", 0) for r in responses}.get(code, 0):
\* the value of the last response with the code
scores_by_code(rs, code) ==
    LET at == {k \in 1..Len(rs) : rs[k].code = code}
    IN  IF at = {} THEN 0
        ELSE rs[CHOOSE k \in at : \A j \in at : j <= k].value

\* An average that is cut, not rounded, to two decimals.
round2_down(total, n) == (100 * total) \div n

\* round(total / n, 2), in hundredths
round2(total, n) == (200 * total + n) \div (2 * n)

calculate_bpi_is_subscales(rs) ==
    LET interference == SumOver([c \in interference_codes |-> scores_by_code(rs, c)],
                                interference_codes)
        intensity    == SumOver([c \in intensity_codes |-> scores_by_code(rs, c)],
                                intensity_codes)
    IN  [interference_avg   |-> round2(interference, Cardinality(interference_codes)),
         intensity_avg      |-> round2(intensity, Cardinality(intensity_codes)),
         interference_total |-> interference,
         intensity_total    |-> intensity]

\* calculate_bpi_is_total_score: sum(r.get("value", 0) for r in responses)
calculate_bpi_is_total_score(rs) ==
    SumOver([k \in 1..Len(rs) |-> rs[k].value], 1..Len(rs))

\* What the score functions returned; bound = FALSE before the call.
NoComputed ==
    [bound |-> FALSE, total |-> 0,
     subscales |-> [rumination |-> 0, magnification |-> 0, helplessness |-> 0]]

NoScoreCalls ==
    /\ scores = <<>>
    /\ responses = <<>>
    /\ computed = NoComputed

\* ------------------------------------------------ checkpoint text
\* The text of the checkpoint file, as a sequence of pieces: punctuation,
\* whitespace ("ws": the newlines and indentation of indent=2), the
\* characters of a number, and quoted strings.
DigitChars == <<"0", "1", "2", "3", "4", "5", "6", "7", "8", "9">>

Digit(d) == DigitChars[d + 1]

DigitValue(c) == CHOOSE d \in 0..9 : DigitChars[d + 1] = c

\* The keys of the document, and the strings that quote them.
Quoted ==
    [processed_ids |-> "'processed_ids'", group_id |-> "'group_id'",
     timestamp |-> "'timestamp'", progress |-> "'progress'",
     total |-> "'total'", processed |-> "'processed'",
     successful |-> "'successful'", failed |-> "'failed'",
     now |-> "'2026-01-01T00:00:00+00:00'"]

Unquoted(c) == CHOOSE k \in DOMAIN Quoted : Quoted[k] = c

StringTokens == {Quoted[k] : k \in DOMAIN Quoted}

\* json.dumps of an int
RECURSIVE digits(_)
digits(n) == IF n < 10 THEN <<Digit(n)>> ELSE digits(n \div 10) \o <<Digit(n % 10)>>

dumps_int(n) == IF n < 0 THEN <<"-">> \o digits(0 - n) ELSE digits(n)

\* json.dumps of a list of ints, one element per line
RECURSIVE dumps_elements(_)
dumps_elements(l) ==
    IF Len(l) = 1 THEN <<"ws">> \o dumps_int(l[1])
    ELSE <<"ws">> \o dumps_int(l[1]) \o <<",">> \o dumps_elements(Tail(l))

dumps_list(l) ==
    IF l = <<>> THEN <<"[", "]">>
    ELSE <<"[">> \o dumps_elements(l) \o <<"ws", "]">>

dumps_member(k, v) == <<"ws", Quoted[k], ":", "ws">> \o v

\* json.dumps(checkpoint_data, indent=2)
dumps(ids, gid, prog) ==
    <<"{">>
    \o dumps_member("processed_ids", dumps_list(ids)) \o <<",">>
    \o dumps_member("group_id", dumps_int(gid)) \o <<",">>
    \o dumps_member("timestamp", <<Quoted["now"]>>) \o <<",">>
    \o dumps_member("progress",
          <<"{">>
          \o dumps_member("total", dumps_int(prog.total)) \o <<",">>
          \o dumps_member("processed", dumps_int(prog.processed)) \o <<",">>
          \o dumps_member("successful", dumps_int(prog.successful)) \o <<",">>
          \o dumps_member("failed", dumps_int(prog.failed))
          \o <<"ws", "}">>)
    \o <<"ws", "}">>

\* A parse: ok = FALSE is a JSONDecodeError.
Parsed(v, t) == [ok |-> TRUE, val |-> v, rest |-> t]

DecodeError == [ok |-> FALSE, val |-> 0, rest |-> <<>>]

RECURSIVE parse_digits(_, _)
parse_digits(t, acc) ==
    IF t # <<>> /\ t[1] \in Range(DigitChars)
    THEN parse_digits(Tail(t), 10 * acc + DigitValue(t[1]))
    ELSE Parsed(acc, t)

\* A number that keeps its last digit only.
parse_int_last_digit(t) ==
    IF t # <<>> /\ t[1] = "-"
    THEN IF Len(t) >= 2 /\ t[2] \in Range(DigitChars)
         THEN LET r == parse_digits(Tail(t), 0) IN Parsed(0 - (r.val % 10), r.rest)
         ELSE DecodeError
    ELSE IF t # <<>> /\ t[1] \in Range(DigitChars)
    THEN LET r == parse_digits(t, 0) IN Parsed(r.val % 10, r.rest)
    ELSE DecodeError

parse_int(t) ==
    IF t # <<>> /\ t[1] = "-"
    THEN IF Len(t) >= 2 /\ t[2] \in Range(DigitChars)
         THEN LET r == parse_digits(Tail(t), 0) IN Parsed(0 - r.val, r.rest)
         ELSE DecodeError
    ELSE IF t # <<>> /\ t[1] \in Range(DigitChars)
    THEN parse_digits(t, 0)
    ELSE DecodeError

\* The JSON decoder: a value, then the elements of an array / the members of
\* an object up to the closing bracket.
RECURSIVE parse_value(_)
RECURSIVE parse_elements(_, _)
RECURSIVE parse_members(_, _)

parse_value(t0) ==
    LET t == lstrip(t0)
    IN  IF t = <<>> THEN DecodeError
        ELSE IF t[1] = "["
        THEN LET u == lstrip(Tail(t))
             IN  IF u # <<>> /\ u[1] = "]" THEN Parsed(<<>>, Tail(u))
                 ELSE parse_elements(u, <<>>)
        ELSE IF t[1] = "{"
        THEN LET u == lstrip(Tail(t))
             IN  IF u # <<>> /\ u[1] = "}" THEN Parsed(<<>>, Tail(u))
                 ELSE parse_members(u, <<>>)
        ELSE IF t[1] \in StringTokens THEN Parsed(Unquoted(t[1]), Tail(t))
        ELSE parse_int(t)

parse_elements(t, acc) ==
    LET r == parse_value(t)
        u == lstrip(r.rest)
    IN  IF ~r.ok \/ u = <<>> THEN DecodeError
        ELSE IF u[1] = "," THEN parse_elements(Tail(u), Append(acc, r.val))
        ELSE IF u[1] = "]" THEN Parsed(Append(acc, r.val), Tail(u))
        ELSE DecodeError

parse_members(t0, acc) ==
    LET t == lstrip(t0)
        c == lstrip(Tail(t))
        r == parse_value(Tail(c))
        u == lstrip(r.rest)
    IN  IF t = <<>> \/ t[1] \notin StringTokens THEN DecodeError
        ELSE IF c = <<>> \/ c[1] # ":" THEN DecodeError
        ELSE IF ~r.ok \/ u = <<>> THEN DecodeError
        ELSE LET d == (Unquoted(t[1]) :> r.val) @@ acc
             IN  IF u[1] = "," THEN parse_members(Tail(u), d)
                 ELSE IF u[1] = "}" THEN Parsed(d, Tail(u))
                 ELSE DecodeError

\* json.loads(text): the whole text is one value
loads(text) ==
    LET r == parse_value(text)
    IN  IF r.ok /\ lstrip(r.rest) = <<>> THEN r ELSE DecodeError

\* The checkpoint file was never written.
NoFile == <<"absent">>

\* _load_checkpoint has not been called / returned {}; read: it has read
\* the text of an existing file.
NotLoaded == [bound |-> FALSE, read |-> FALSE, empty |-> TRUE, data |-> <<>>]

EmptyLoaded(read) == [bound |-> TRUE, read |-> read, empty |-> TRUE, data |-> <<>>]

NoCheckpointCalls ==
    /\ file_text = NoFile
    /\ loaded = NotLoaded

\* ------------------------------------------------ DatabaseManager
Users == {1, 2}

\* The group ids a caller may name; the table holds some of them.
NamedGroups == 1..3

\* A row of experiment_group_users (its own id is a surrogate key, so the
\* same pair may be stored more than once).
ExperimentGroupUser(g, u) == [experiments_group_id |-> g, user_id |-> u]

\* get_user_experiment_groups(user_id): the group ids of the user's rows
get_user_experiment_groups(lnks, user_id) ==
    LET mine == SelectSeq(lnks, LAMBDA l : l.user_id = user_id)
    IN  [k \in 1..Len(mine) |-> mine[k].experiments_group_id]

\* An update that adds the new assignments and deletes nothing.
update_user_experiment_groups_adding(lnks, grps, user_id, group_ids) ==
    IF \E k \in 1..Len(group_ids) : group_ids[k] \notin grps
    THEN [raised |-> "ValueError", links |-> lnks]
    ELSE [raised |-> "none",
          links  |-> lnks
                     \o [k \in 1..Len(group_ids) |->
                            ExperimentGroupUser(group_ids[k], user_id)]]

\* update_user_experiment_groups(user_id, group_ids) in one session: every
\* id is validated, then the user's rows are deleted, the new ones added
\* and the session committed; a ValueError leaves the session uncommitted.
update_user_experiment_groups(lnks, grps, user_id, group_ids) ==
    IF \E k \in 1..Len(group_ids) : group_ids[k] \notin grps
    THEN [raised |-> "ValueError", links |-> lnks]
    ELSE [raised |-> "none",
          links  |-> SelectSeq(lnks, LAMBDA l : l.user_id # user_id)
                     \o [k \in 1..Len(group_ids) |->
                            ExperimentGroupUser(group_ids[k], user_id)]]

\* No call of update_user_experiment_groups yet.
NoUpdate ==
    [n |-> 0, user_id |-> 0, group_ids |-> <<>>, raised |-> "none",
     before |-> <<>>]

\* The processes (batch runs) that share the database.
Callers == {"run_a", "run_b"}

\* A caller of create_narrative: where it is in the call ("idle" outside
\* it, "read" between the SELECT max and the commit), its next_id, the
\* calls it has made, the ids they returned and whether one of them raised.
NoCaller ==
    [pc |-> "idle", next_id |-> 0, calls |-> 0, returned |-> {},
     raised |-> FALSE]

NoNarrativeCalls ==
    /\ narrative_table = {}
    /\ callers = [p \in Callers |-> NoCaller]

\* select(func.max(Narrative.narrative_id)) ... or 0
max_id(table) ==
    IF table = {} THEN 0 ELSE CHOOSE m \in table : \A k \in table : k <= m

NoTableCalls ==
    /\ experiment_groups = {}
    /\ links = <<>>
    /\ update = NoUpdate
    /\ NoNarrativeCalls

\* Spec: up to MaxRuns invocations (kill, resume, restart) of a batch that
\* runs the two stages the loop counts by, dimensions and PCS, each switched
\* on or off; BPI-IS and TSK-11SV are switched off.
LoopConfigs ==
    {c \in BatchConfig : ~c.include_bpi_is /\ ~c.include_tsk_11sv}

\* SpecChain: one invocation under every BatchConfig.
ChainConfigs == BatchConfig

InitWith(configs, n) ==
    /\ config \in configs
    /\ entry \in EntryPoints
    /\ narratives \in Inputs(entry)
    /\ runs = n
    /\ pc = "idle"
    /\ resume = FALSE
    /\ checkpoint = NoCheckpoint
    /\ i = 1
    /\ processed_ids = <<>>
    /\ progress = BatchProgress(0, 0, 0, 0)
    /\ group_id = 0
    /\ stage = 0
    /\ attempt = 0
    /\ qresult = None
    /\ response = "none"
    /\ result = NarrativeEvaluationResult
    /\ checkpoint_file = NoCheckpoint
    /\ db = NoDb
    /\ obs = NoObs({})
    /\ api_response = ApiResponse("raises", "missing", "missing", "missing", <<>>)
    /\ questionnaire_type = "PCS"
    /\ returned = Unreturned
    /\ NoScoreCalls
    /\ NoCheckpointCalls
    /\ NoTableCalls

Init == InitWith(LoopConfigs, MaxRuns)

InitChain == InitWith(ChainConfigs, 1)

\* ------------------------------------------------ checkpoint file
\* _save_checkpoint's document; the timestamp is not read back by anything.
checkpoint_data(ids, gid, prog) ==
    [exists |-> TRUE, processed_ids |-> ids, group_id |-> gid, progress |-> prog]

\* _save_checkpoint(processed_ids, group_id) when the write succeeds.
save_checkpoint(file, ids, gid, prog) ==
    IF ~config.checkpoint_file THEN file ELSE checkpoint_data(ids, gid, prog)

\* A loader that never finds the file.
load_checkpoint_ignoring_file(file) == NoCheckpoint

\* _load_checkpoint(): {} without a configured or existing file.
load_checkpoint(file) ==
    IF ~config.checkpoint_file THEN NoCheckpoint
    ELSE IF ~file.exists THEN NoCheckpoint
    ELSE file

Active == pc \notin {"idle", "returned", "raised", "crashed"}

Key == narratives[i]

\* ------------------------------------------------ start of an invocation
\* A start that always registers a new group.
Resumes_never(cp, r) == FALSE

\* `if checkpoint and resume:` (an empty dict is falsy)
Resumes(cp, r) == cp.exists /\ r

\* run_batch / run_batch_with_existing_narratives up to the for loop.
StartRun(r) ==
    /\ ~Active
    /\ runs > 0
    /\ LET cp   == IF r THEN load_checkpoint(checkpoint_file) ELSE NoCheckpoint
           res  == Resumes(cp, r)
           ids  == IF res THEN cp.processed_ids ELSE <<>>
           gid  == IF res THEN cp.group_id ELSE db.groups + 1
           prv  == IF pc = "crashed" THEN obs.prev ELSE {}
       IN  /\ checkpoint' = cp
           /\ processed_ids' = ids
           /\ group_id' = gid
           /\ db' = [db EXCEPT !.groups = IF res THEN @ ELSE @ + 1,
                               !.experiment = NoExperiment]
           /\ progress' = BatchProgress(Len(narratives), Len(ids), 0, 0)
           /\ obs' = [NoObs(prv) EXCEPT
                         !.groups = IF res THEN 0 ELSE 1,
                         !.file_ids = IF r /\ config.checkpoint_file
                                      THEN Range(checkpoint_file.processed_ids)
                                      ELSE {}]
    /\ runs' = runs - 1
    /\ resume' = r
    /\ pc' = "loop"
    /\ i' = 1
    /\ stage' = 0
    /\ attempt' = 0
    /\ qresult' = None
    /\ response' = "none"
    /\ result' = NarrativeEvaluationResult
    /\ UNCHANGED <<cfgvars, checkpoint_file>>

\* register_new_experiments_group raises: the invocation raises before the loop.
StartRunRaises(r) ==
    /\ ~Active
    /\ runs > 0
    /\ ~Resumes(IF r THEN load_checkpoint(checkpoint_file) ELSE NoCheckpoint, r)
    /\ runs' = runs - 1
    /\ resume' = r
    /\ checkpoint' = NoCheckpoint
    /\ processed_ids' = <<>>
    /\ progress' = BatchProgress(0, 0, 0, 0)
    /\ group_id' = 0
    /\ i' = 1
    /\ stage' = 0
    /\ attempt' = 0
    /\ qresult' = None
    /\ response' = "none"
    /\ result' = NarrativeEvaluationResult
    /\ obs' = NoObs({})
    /\ pc' = "raised"
    /\ db' = [db EXCEPT !.experiment = NoExperiment]
    /\ UNCHANGED <<cfgvars, checkpoint_file>>

\* ------------------------------------------------ the for loop
\* `if idx in processed_ids: continue`
AlreadyProcessed_never(key, ids) == FALSE

AlreadyProcessed(key, ids) == key \in Range(ids)

\* The locals of process_single_narrative are dead once it has returned or
\* raised, and the rows of its experiment are not touched again.
Forget ==
    /\ stage' = 0
    /\ attempt' = 0
    /\ qresult' = None
    /\ response' = "none"
    /\ result' = NarrativeEvaluationResult
    /\ db' = [db EXCEPT !.experiment = NoExperiment]

outerframe == <<cfgvars, runs, resume, checkpoint, processed_ids, progress,
                group_id, checkpoint_file>>

LoopSkip ==
    /\ pc = "loop"
    /\ i <= Len(narratives)
    /\ AlreadyProcessed(Key, processed_ids)
    /\ i' = i + 1
    /\ obs' = [obs EXCEPT !.last = "none", !.exc = "none",
                          !.calls = 0, !.qraised = FALSE,
                          !.ncalls = 0, !.callstage = 0,
                          !.flawed = FALSE, !.persist = FALSE,
                          !.dim = "none", !.rr = 0, !.created = 0,
                          !.before = BatchProgress(0, 0, 0, 0)]
    /\ Forget
    /\ UNCHANGED <<outerframe, pc>>

\* current_narrative_id is set and the progress callback returns.
LoopBegin ==
    /\ pc = "loop"
    /\ i <= Len(narratives)
    /\ ~AlreadyProcessed(Key, processed_ids)
    /\ obs' = [obs EXCEPT !.last = "none", !.exc = "none",
                          !.calls = 0, !.qraised = FALSE,
                          !.ncalls = 0, !.callstage = 0,
                          !.flawed = FALSE, !.persist = FALSE,
                          !.dim = "none", !.rr = 0, !.created = 0,
                          !.before = progress]
    /\ pc' = IF entry = "run_batch" THEN "create" ELSE "register"
    /\ Forget
    /\ UNCHANGED <<outerframe, i>>

\* The progress callback raises before the try block: run_batch raises.
LoopBeginNotifyRaises ==
    /\ pc = "loop"
    /\ i <= Len(narratives)
    /\ ~AlreadyProcessed(Key, processed_ids)
    /\ obs' = [obs EXCEPT !.last = "none", !.exc = "none",
                          !.calls = 0, !.qraised = FALSE,
                          !.ncalls = 0, !.callstage = 0,
                          !.flawed = FALSE, !.persist = FALSE,
                          !.dim = "none", !.rr = 0, !.created = 0,
                          !.before = BatchProgress(0, 0, 0, 0)]
    /\ pc' = "raised"
    /\ Forget
    /\ UNCHANGED <<outerframe, i>>

LoopExit ==
    /\ pc = "loop"
    /\ i > Len(narratives)
    /\ pc' = "final_checkpoint"
    /\ obs' = [obs EXCEPT !.last = "none", !.exc = "none",
                          !.calls = 0, !.qraised = FALSE,
                          !.ncalls = 0, !.callstage = 0,
                          !.flawed = FALSE, !.persist = FALSE,
                          !.dim = "none", !.rr = 0, !.created = 0,
                          !.before = BatchProgress(0, 0, 0, 0)]
    /\ Forget
    /\ UNCHANGED <<outerframe, i>>

\* create_narrative_record -> db_manager.create_narrative
CreateNarrative ==
    /\ pc = "create"
    /\ pc' = "register"
    /\ obs' = [obs EXCEPT !.created = @ + 1]
    /\ UNCHANGED <<cfgvars, runs, memvars, checkpoint_file, db>>

CreateNarrativeRaises ==
    /\ pc = "create"
    /\ pc' = "except"
    /\ obs' = [obs EXCEPT !.exc = "create_narrative"]
    /\ UNCHANGED <<cfgvars, runs, memvars, checkpoint_file, db>>

\* ------------------------------------------------ stage chain
Included_all(s) == TRUE

\* `if self.config.include_dimensions:` ... `if self.config.include_tsk_11sv:`
Included(s) ==
    CASE s = 1 -> config.include_dimensions
      [] s = 2 -> config.include_pcs
      [] s = 3 -> config.include_bpi_is
      [] s = 4 -> config.include_tsk_11sv
      [] OTHER -> TRUE

\* A chain that runs the PCS questionnaire before the dimension evaluation.
NextStage_pcs_first(s) ==
    CASE s = 0 -> IF Included(2) THEN 2 ELSE IF Included(1) THEN 1
                  ELSE IF Included(3) THEN 3 ELSE IF Included(4) THEN 4 ELSE 5
      [] s = 2 -> IF Included(1) THEN 1
                  ELSE IF Included(3) THEN 3 ELSE IF Included(4) THEN 4 ELSE 5
      [] s = 1 -> IF Included(3) THEN 3 ELSE IF Included(4) THEN 4 ELSE 5
      [] s = 3 -> IF Included(4) THEN 4 ELSE 5
      [] OTHER -> 5

\* The first stage after s that process_single_narrative runs; 5 = return.
RECURSIVE NextStage(_)
NextStage(s) == IF Included(s + 1) THEN s + 1 ELSE NextStage(s + 1)

StagePc(s) == IF s = 1 THEN "dim_call" ELSE IF s <= 4 THEN "q_attempt" ELSE "count"

\* The observer sees an experiment registered against narrative id k.
Registered(o, k) ==
    [o EXCEPT !.twice = @ \/ k \in o.handled \/ db.experiment.exists]

\* A registration that leaves the 'repeated' column at its default.
RegisterExperiment_untagged ==
    /\ pc = "register"
    /\ db' = [db EXCEPT !.experiment =
                 [NoExperiment EXCEPT !.exists = TRUE, !.group = group_id,
                     !.narrative = Key,
                     !.repeated = 0]]
    /\ obs' = Registered(obs, Key)
    /\ result' = NarrativeEvaluationResult
    /\ stage' = NextStage(0)
    /\ attempt' = 0
    /\ qresult' = None
    /\ response' = "none"
    /\ pc' = StagePc(NextStage(0))
    /\ UNCHANGED <<cfgvars, runs, resume, checkpoint, i, processed_ids, progress,
                   group_id, checkpoint_file>>

\* db_manager.register_new_experiment, then process_single_narrative starts.
RegisterExperiment ==
    /\ pc = "register"
    /\ db' = [db EXCEPT !.experiment =
                 [NoExperiment EXCEPT !.exists = TRUE, !.group = group_id,
                     !.narrative = Key,
                     !.repeated = IF entry = "run_batch" THEN 0 ELSE RunNumber]]
    /\ obs' = Registered(obs, Key)
    /\ result' = NarrativeEvaluationResult
    /\ stage' = NextStage(0)
    /\ attempt' = 0
    /\ qresult' = None
    /\ response' = "none"
    /\ pc' = StagePc(NextStage(0))
    /\ UNCHANGED <<cfgvars, runs, resume, checkpoint, i, processed_ids, progress,
                   group_id, checkpoint_file>>

RegisterExperimentRaises ==
    /\ pc = "register"
    /\ pc' = "except"
    /\ obs' = [obs EXCEPT !.exc = "register_new_experiment"]
    /\ UNCHANGED <<cfgvars, runs, memvars, checkpoint_file, db>>

\* The model client has been invoked in the current stage.
Called(o, ok) ==
    [o EXCEPT !.calls = @ + 1, !.ncalls = @ + 1, !.callstage = stage,
              !.flawed = @ \/ ~ok, !.slept = {}]

\* Leave the current stage, after its time.sleep(delay_between_calls), for
\* the next included one; o is what the observer has seen of the stage.
Advance(o) ==
    /\ stage' = NextStage(stage)
    /\ pc' = StagePc(NextStage(stage))
    /\ attempt' = 0
    /\ qresult' = None
    /\ response' = "none"
    /\ obs' = [o EXCEPT !.calls = 0, !.qraised = FALSE,
                        !.slept = @ \cup {"delay_between_calls"}]

loopframe == <<cfgvars, runs, resume, checkpoint, i, processed_ids, progress,
               group_id, checkpoint_file>>

\* ------------------------------------------------ 1. dimension evaluation
\* _run_dimension_evaluation: openai_client.create_completion returns a
\* response whose content parses ("json"), does not parse or is empty
\* ("error"), or is not a string ("null": content is null or choices is an
\* empty list, and the content lookup raises).
DimOutcomes == {"json", "error", "null"}

DimCall(o) ==
    /\ pc = "dim_call"
    /\ o \in DimOutcomes
    /\ response' = o
    /\ obs' = [Called(obs, o = "json") EXCEPT !.dim = "returned"]
    /\ pc' = "dim_save_rr"
    /\ UNCHANGED <<loopframe, stage, attempt, qresult, result, db>>

\* create_completion raises: process_single_narrative's try catches it.
DimCallRaises ==
    /\ pc = "dim_call"
    /\ result' = [result EXCEPT !.dimension_error = TRUE]
    /\ Advance([Called(obs, FALSE) EXCEPT !.dim = "raised"])
    /\ UNCHANGED <<loopframe, db>>

\* A dimension evaluation that parses the content without saving the
\* request/response pair.
DimSaveRequestResponse_unsaved ==
    /\ pc = "dim_save_rr"
    /\ response # "null"
    /\ result' = [result EXCEPT !.dimension_success = (response = "json")]
    /\ pc' = "dim_save_eval"
    /\ UNCHANGED <<loopframe, stage, attempt, qresult, response, obs, db>>

\* save_request_response, then the content is parsed and the dict returned:
\* dimension_success = "error" not in dim_result.
DimSaveRequestResponse ==
    /\ pc = "dim_save_rr"
    /\ response # "null"
    /\ db' = [db EXCEPT !.experiment.requests = @ + 1]
    /\ obs' = [obs EXCEPT !.rr = @ + 1]
    /\ result' = [result EXCEPT !.dimension_success = (response = "json")]
    /\ pc' = "dim_save_eval"
    /\ UNCHANGED <<loopframe, stage, attempt, qresult, response>>

\* save_request_response, then the content lookup raises (.strip() of None,
\* [0] of an empty list): process_single_narrative's try catches it.
DimContentRaises ==
    /\ pc = "dim_save_rr"
    /\ response = "null"
    /\ db' = [db EXCEPT !.experiment.requests = @ + 1]
    /\ result' = [result EXCEPT !.dimension_error = TRUE]
    /\ Advance([obs EXCEPT !.rr = @ + 1])
    /\ UNCHANGED <<loopframe>>

DimSaveRequestResponseRaises ==
    /\ pc = "dim_save_rr"
    /\ result' = [result EXCEPT !.dimension_error = TRUE]
    /\ Advance([obs EXCEPT !.persist = TRUE, !.rr = @ + 1])
    /\ UNCHANGED <<loopframe, db>>

\* save_evaluation_result(result_type="dimensions")
DimSaveEvaluation ==
    /\ pc = "dim_save_eval"
    /\ db' = [db EXCEPT !.experiment.evaluations["dimensions"] = @ + 1]
    /\ pc' = "dim_status"
    /\ UNCHANGED <<loopframe, stage, attempt, qresult, response, result, obs>>

DimSaveEvaluationRaises ==
    /\ pc = "dim_save_eval"
    /\ result' = [result EXCEPT !.dimension_error = TRUE]
    /\ Advance([obs EXCEPT !.persist = TRUE])
    /\ UNCHANGED <<loopframe, db>>

\* update_experiment_status(succeeded=dimension_success, ...)
DimUpdateStatus ==
    /\ pc = "dim_status"
    /\ db' = [db EXCEPT !.experiment.succeeded = result.dimension_success]
    /\ Advance(obs)
    /\ UNCHANGED <<loopframe, result>>

DimUpdateStatusRaises ==
    /\ pc = "dim_status"
    /\ result' = [result EXCEPT !.dimension_error = TRUE]
    /\ Advance([obs EXCEPT !.persist = TRUE])
    /\ UNCHANGED <<loopframe, db>>

\* ------------------------------------------------ 2-4. questionnaires
QType == Stages[stage]

\* `for attempt in range(self.config.max_retries)`
MoreAttempts_one_more(a, max_retries) == a <= max_retries

MoreAttempts(a, max_retries) == a < max_retries

\* `if attempt < self.config.max_retries - 1: time.sleep(retry_delay)`
SleepsBeforeRetry_never(a, max_retries) == FALSE

SleepsBeforeRetry(a, max_retries) == a < max_retries - 1

\* run_questionnaire returns success=True: the wrapper returns at once.
QAttemptSucceeds ==
    /\ pc = "q_attempt"
    /\ MoreAttempts(attempt, config.max_retries)
    /\ qresult' = QuestionnaireResult(TRUE, attempt + 1)
    /\ result' = [result EXCEPT !.q[QType] = Stored(QuestionnaireResult(TRUE, attempt + 1))]
    /\ obs' = Called(obs, TRUE)
    /\ pc' = "q_save"
    /\ UNCHANGED <<loopframe, stage, attempt, response, db>>

\* run_questionnaire returns success=False (empty content, malformed JSON,
\* wrong shape, or an exception of the model client, which it catches).
QAttemptFails ==
    /\ pc = "q_attempt"
    /\ MoreAttempts(attempt, config.max_retries)
    /\ qresult' = QuestionnaireResult(FALSE, attempt + 1)
    /\ attempt' = attempt + 1
    /\ obs' = [Called(obs, FALSE) EXCEPT
                  !.slept = IF SleepsBeforeRetry(attempt, config.max_retries)
                            THEN {"retry_delay"} ELSE {}]
    /\ UNCHANGED <<loopframe, pc, stage, response, result, db>>

\* The call of run_questionnaire raises before it reaches the model client
\* (the prompts of the type are missing, the narrative is not a string):
\* the wrapper's except logs it and `result` keeps its previous binding.
QAttemptRaises ==
    /\ pc = "q_attempt"
    /\ MoreAttempts(attempt, config.max_retries)
    /\ attempt' = attempt + 1
    /\ obs' = [obs EXCEPT !.qraised = TRUE, !.flawed = TRUE,
                  !.slept = IF SleepsBeforeRetry(attempt, config.max_retries)
                            THEN @ \cup {"retry_delay"} ELSE @]
    /\ UNCHANGED <<loopframe, pc, stage, qresult, response, result, db>>

\* `return result` after the loop; an unbound `result` is an
\* UnboundLocalError, which leaves process_single_narrative.
QReturn ==
    /\ pc = "q_attempt"
    /\ ~MoreAttempts(attempt, config.max_retries)
    /\ IF qresult.bound
       THEN /\ result' = [result EXCEPT !.q[QType] = Stored(qresult)]
            /\ pc' = "q_save"
            /\ obs' = obs
       ELSE /\ result' = result
            /\ pc' = "except"
            /\ obs' = [obs EXCEPT !.exc = "unbound_result"]
    /\ UNCHANGED <<loopframe, stage, attempt, qresult, response, db>>

\* _save_questionnaire_result: `if not result.success: return None`
SkipsSave_never(r) == FALSE

SkipsSave(r) == ~r.success

QSaveSkipped ==
    /\ pc = "q_save"
    /\ SkipsSave(result.q[QType])
    /\ Advance(obs)
    /\ UNCHANGED <<loopframe, result, db>>

\* db_manager.save_questionnaire_result
QSaveQuestionnaire ==
    /\ pc = "q_save"
    /\ ~SkipsSave(result.q[QType])
    /\ db' = [db EXCEPT !.experiment.questionnaires[QType] = @ + 1]
    /\ pc' = "q_save_eval"
    /\ UNCHANGED <<loopframe, stage, attempt, qresult, response, result, obs>>

QSaveQuestionnaireRaises ==
    /\ pc = "q_save"
    /\ ~SkipsSave(result.q[QType])
    /\ pc' = "except"
    /\ obs' = [obs EXCEPT !.exc = "save_questionnaire_result", !.persist = TRUE]
    /\ UNCHANGED <<loopframe, stage, attempt, qresult, response, result, db>>

\* A questionnaire stage that ends without its evaluation-result row.
QSaveEvaluation_no_row ==
    /\ pc = "q_save_eval"
    /\ result' = [result EXCEPT !.qid[QType] = TRUE]
    /\ Advance(obs)
    /\ UNCHANGED <<loopframe, db>>

\* the scores are calculated and db_manager.save_evaluation_result is called
QSaveEvaluation ==
    /\ pc = "q_save_eval"
    /\ db' = [db EXCEPT !.experiment.evaluations[QType] = @ + 1]
    /\ result' = [result EXCEPT !.qid[QType] = TRUE]
    /\ Advance(obs)
    /\ UNCHANGED <<loopframe>>

\* calculate_*_total_score / calculate_*_subscales raises on the values of
\* the parsed output (a score that int() rejects, a response that is not
\* a dict, a value that does not add up); nothing catches it here.
QScoresRaise ==
    /\ pc = "q_save_eval"
    /\ pc' = "except"
    /\ obs' = [obs EXCEPT !.exc = "calculate_scores"]
    /\ UNCHANGED <<loopframe, stage, attempt, qresult, response, result, db>>

\* save_evaluation_result raises
QSaveEvaluationRaises ==
    /\ pc = "q_save_eval"
    /\ pc' = "except"
    /\ obs' = [obs EXCEPT !.exc = "save_evaluation_result", !.persist = TRUE]
    /\ UNCHANGED <<loopframe, stage, attempt, qresult, response, result, db>>

\* ------------------------------------------------ counting a narrative
\* `result.dimension_success or (result.pcs_result and result.pcs_result.success)`
CountsSuccessful(res) ==
    res.dimension_success \/ (res.q["PCS"].bound /\ res.q["PCS"].success)

\* progress after `processed += 1` and the successful / failed increment
Counted(prog, res) ==
    [prog EXCEPT !.processed = @ + 1,
                 !.successful = IF CountsSuccessful(res) THEN @ + 1 ELSE @,
                 !.failed = IF CountsSuccessful(res) THEN @ ELSE @ + 1]

\* `self.progress.processed % self.config.checkpoint_interval == 0`
CheckpointDue(processed, interval) == processed % interval = 0

countframe == <<cfgvars, runs, resume, checkpoint, group_id, stage, attempt,
                qresult, response, result, db>>

\* results.append, processed_ids.append, the counters, the callback, and the
\* periodic checkpoint, all returning.
Count ==
    /\ pc = "count"
    /\ config.checkpoint_interval # 0
    /\ LET ids  == Append(processed_ids, Key)
           prog == Counted(progress, result)
           due  == CheckpointDue(prog.processed, config.checkpoint_interval)
       IN  /\ processed_ids' = ids
           /\ progress' = prog
           /\ checkpoint_file' =
                 IF due THEN save_checkpoint(checkpoint_file, ids, group_id, prog)
                 ELSE checkpoint_file
           /\ obs' = [obs EXCEPT !.handled = @ \cup {Key}, !.last = "counted"]
    /\ i' = i + 1
    /\ pc' = "loop"
    /\ UNCHANGED countframe

\* The same lines, but the progress callback raises after the counters
\* were incremented: control passes to the except clause.
CountNotifyRaises ==
    /\ pc = "count"
    /\ processed_ids' = Append(processed_ids, Key)
    /\ progress' = Counted(progress, result)
    /\ obs' = [obs EXCEPT !.handled = @ \cup {Key}, !.exc = "notify_progress"]
    /\ pc' = "except"
    /\ UNCHANGED <<countframe, i, checkpoint_file>>

\* checkpoint_interval = 0: the modulo raises ZeroDivisionError.
CountZeroDivision ==
    /\ pc = "count"
    /\ config.checkpoint_interval = 0
    /\ processed_ids' = Append(processed_ids, Key)
    /\ progress' = Counted(progress, result)
    /\ obs' = [obs EXCEPT !.handled = @ \cup {Key}, !.exc = "zero_division"]
    /\ pc' = "except"
    /\ UNCHANGED <<countframe, i, checkpoint_file>>

\* The periodic checkpoint is due and write_text raises.
CountCheckpointRaises ==
    /\ pc = "count"
    /\ config.checkpoint_interval # 0
    /\ config.checkpoint_file
    /\ CheckpointDue(Counted(progress, result).processed, config.checkpoint_interval)
    /\ processed_ids' = Append(processed_ids, Key)
    /\ progress' = Counted(progress, result)
    /\ obs' = [obs EXCEPT !.handled = @ \cup {Key}, !.exc = "save_checkpoint"]
    /\ pc' = "except"
    /\ UNCHANGED <<countframe, i, checkpoint_file>>

\* An except clause that logs and counts nothing.
Except_uncounted ==
    /\ pc = "except"
    /\ obs' = [obs EXCEPT !.handled = @ \cup {Key}, !.last = "raised"]
    /\ i' = i + 1
    /\ pc' = "loop"
    /\ UNCHANGED <<countframe, checkpoint_file, progress, processed_ids>>

\* `except Exception`: count the narrative as processed and failed.
Except ==
    /\ pc = "except"
    /\ progress' = [progress EXCEPT !.processed = @ + 1, !.failed = @ + 1]
    /\ processed_ids' = Append(processed_ids, Key)
    /\ obs' = [obs EXCEPT !.handled = @ \cup {Key}, !.last = "raised"]
    /\ i' = i + 1
    /\ pc' = "loop"
    /\ UNCHANGED <<countframe, checkpoint_file>>

\* The callback called by the except clause raises: run_batch raises.
ExceptNotifyRaises ==
    /\ pc = "except"
    /\ progress' = [progress EXCEPT !.processed = @ + 1, !.failed = @ + 1]
    /\ processed_ids' = Append(processed_ids, Key)
    /\ obs' = [obs EXCEPT !.handled = @ \cup {Key}, !.last = "raised"]
    /\ pc' = "raised"
    /\ UNCHANGED <<countframe, i, checkpoint_file>>

\* ------------------------------------------------ end of the invocation
\* A loop exit that goes on to conclude the group without writing the file.
FinalCheckpoint_no_write ==
    /\ pc = "final_checkpoint"
    /\ pc' = "conclude"
    /\ UNCHANGED <<cfgvars, runs, memvars, checkpoint_file, db, obs>>

\* `self._save_checkpoint(processed_ids, group_id)` after the loop
FinalCheckpoint ==
    /\ pc = "final_checkpoint"
    /\ checkpoint_file' = save_checkpoint(checkpoint_file, processed_ids, group_id, progress)
    /\ pc' = "conclude"
    /\ UNCHANGED <<cfgvars, runs, memvars, db, obs>>

FinalCheckpointRaises ==
    /\ pc = "final_checkpoint"
    /\ config.checkpoint_file
    /\ pc' = "raised"
    /\ obs' = [obs EXCEPT !.exc = "final_save_checkpoint"]
    /\ UNCHANGED <<cfgvars, runs, memvars, checkpoint_file, db>>

\* db_manager.update_experiment_group(group_id, user_id, concluded=True)
Conclude ==
    /\ pc = "conclude"
    /\ db' = [db EXCEPT !.concluded[group_id] = @ + 1]
    /\ obs' = [obs EXCEPT !.concluded = @ + 1]
    /\ pc' = "returned"
    /\ UNCHANGED <<cfgvars, runs, memvars, checkpoint_file>>

ConcludeRaises ==
    /\ pc = "conclude"
    /\ pc' = "raised"
    /\ obs' = [obs EXCEPT !.exc = "update_experiment_group"]
    /\ UNCHANGED <<cfgvars, runs, memvars, checkpoint_file, db>>

\* The process is killed: memory is lost, the file and the database stay.
Crash ==
    /\ Active
    /\ pc' = "crashed"
    /\ resume' = FALSE
    /\ checkpoint' = NoCheckpoint
    /\ i' = 1
    /\ processed_ids' = <<>>
    /\ progress' = BatchProgress(0, 0, 0, 0)
    /\ group_id' = 0
    /\ stage' = 0
    /\ attempt' = 0
    /\ qresult' = None
    /\ response' = "none"
    /\ result' = NarrativeEvaluationResult
    /\ db' = [db EXCEPT !.experiment = NoExperiment]
    /\ obs' = NoObs(obs.handled)
    /\ UNCHANGED <<cfgvars, runs, checkpoint_file>>

Next ==
    \/ \E r \in BOOLEAN : StartRun(r)
    \/ \E r \in BOOLEAN : StartRunRaises(r)
    \/ LoopSkip
    \/ LoopBegin
    \/ LoopBeginNotifyRaises
    \/ LoopExit
    \/ CreateNarrative
    \/ CreateNarrativeRaises
    \/ RegisterExperiment
    \/ RegisterExperimentRaises
    \/ \E o \in DimOutcomes : DimCall(o)
    \/ DimCallRaises
    \/ DimSaveRequestResponse
    \/ DimContentRaises
    \/ DimSaveRequestResponseRaises
    \/ DimSaveEvaluation
    \/ DimSaveEvaluationRaises
    \/ DimUpdateStatus
    \/ DimUpdateStatusRaises
    \/ QAttemptSucceeds
    \/ QAttemptFails
    \/ QAttemptRaises
    \/ QReturn
    \/ QSaveSkipped
    \/ QSaveQuestionnaire
    \/ QSaveQuestionnaireRaises
    \/ QSaveEvaluation
    \/ QScoresRaise
    \/ QSaveEvaluationRaises
    \/ Count
    \/ CountNotifyRaises
    \/ CountZeroDivision
    \/ CountCheckpointRaises
    \/ Except
    \/ ExceptNotifyRaises
    \/ FinalCheckpoint
    \/ FinalCheckpointRaises
    \/ Conclude
    \/ ConcludeRaises
    \/ Crash

Spec == Init /\ [][Next]_vars

SpecChain == InitChain /\ [][Next]_vars

\* ------------------------------------------------ SpecRunner
\* One call of run_questionnaire for every questionnaire type and every
\* behaviour of the model client; no batch is run.
InitRunner ==
    /\ config = [max_retries |-> 1, checkpoint_interval |-> 1,
                 checkpoint_file |-> FALSE, include_dimensions |-> FALSE,
                 include_pcs |-> TRUE, include_bpi_is |-> TRUE,
                 include_tsk_11sv |-> TRUE]
    /\ entry = "run_batch"
    /\ narratives = [k \in Keys |-> k]
    /\ runs = 0
    /\ pc = "idle"
    /\ resume = FALSE
    /\ checkpoint = NoCheckpoint
    /\ i = 1
    /\ processed_ids = <<>>
    /\ progress = BatchProgress(0, 0, 0, 0)
    /\ group_id = 0
    /\ stage = 0
    /\ attempt = 0
    /\ qresult = None
    /\ response = "none"
    /\ result = NarrativeEvaluationResult
    /\ checkpoint_file = NoCheckpoint
    /\ db = NoDb
    /\ obs = NoObs({})
    /\ api_response \in Responses
    /\ questionnaire_type \in QTypes
    /\ returned = Unreturned
    /\ NoScoreCalls
    /\ NoCheckpointCalls
    /\ NoTableCalls

RunQuestionnaire ==
    /\ ~returned.bound
    /\ returned' = run_questionnaire(api_response, questionnaire_type)
    /\ UNCHANGED <<config, entry, narratives, runs, pc, memvars,
                   checkpoint_file, db, obs, api_response, questionnaire_type,
                   scorevars, textvars, tablevars>>

NextRunner == RunQuestionnaire

SpecRunner == InitRunner /\ [][NextRunner]_vars

\* ------------------------------------------------ SpecScores
\* One call of the PCS or of the BPI-IS score functions on every result of
\* the input sets; no batch is run.
BatchAtRest ==
    /\ config = [max_retries |-> 1, checkpoint_interval |-> 1,
                 checkpoint_file |-> FALSE, include_dimensions |-> FALSE,
                 include_pcs |-> TRUE, include_bpi_is |-> TRUE,
                 include_tsk_11sv |-> TRUE]
    /\ entry = "run_batch"
    /\ narratives = [k \in Keys |-> k]
    /\ runs = 0
    /\ pc = "idle"
    /\ resume = FALSE
    /\ checkpoint = NoCheckpoint
    /\ i = 1
    /\ processed_ids = <<>>
    /\ progress = BatchProgress(0, 0, 0, 0)
    /\ group_id = 0
    /\ stage = 0
    /\ attempt = 0
    /\ qresult = None
    /\ response = "none"
    /\ result = NarrativeEvaluationResult
    /\ checkpoint_file = NoCheckpoint
    /\ db = NoDb
    /\ obs = NoObs({})

batchvars == <<config, entry, narratives, runs, pc, memvars, checkpoint_file,
               db, obs>>

InitScores ==
    /\ BatchAtRest
    /\ api_response = ApiResponse("raises", "missing", "missing", "missing", <<>>)
    /\ questionnaire_type \in {"PCS", "BPI-IS"}
    /\ returned = Unreturned
    /\ IF questionnaire_type = "PCS"
       THEN scores \in PcsScores /\ responses = <<>>
       ELSE scores = <<>> /\ responses \in BpiResponses
    /\ computed = NoComputed
    /\ NoCheckpointCalls
    /\ NoTableCalls

\* calculate_pcs_total_score(result) and calculate_pcs_subscales(result)
CalculatePcs ==
    /\ questionnaire_type = "PCS"
    /\ ~computed.bound
    /\ computed' = [bound |-> TRUE,
                    total |-> calculate_pcs_total_score(scores),
                    subscales |-> calculate_pcs_subscales(scores)]
    /\ UNCHANGED <<batchvars, runnervars, scores, responses, textvars,
                   tablevars>>

\* calculate_bpi_is_total_score(result) and calculate_bpi_is_subscales(result)
CalculateBpiIs ==
    /\ questionnaire_type = "BPI-IS"
    /\ ~computed.bound
    /\ computed' = [bound |-> TRUE,
                    total |-> calculate_bpi_is_total_score(responses),
                    subscales |-> calculate_bpi_is_subscales(responses)]
    /\ UNCHANGED <<batchvars, runnervars, scores, responses, textvars,
                   tablevars>>

NextScores ==
    \/ CalculatePcs
    \/ CalculateBpiIs

SpecScores == InitScores /\ [][NextScores]_vars

\* ------------------------------------------------ SpecCheckpoint
\* _save_checkpoint and _load_checkpoint called on a processor whose
\* progress, and the processed_ids and group_id in hand, are drawn from the
\* sets below; the file is written as text and read back from the text.
IdValues == {0 - 1, 3, 7, 9, 42, 120}

GroupIds == {1, 42}

Snapshots ==
    {BatchProgress(t, p, sc, f) :
        t \in {3, 12}, p \in {0, 3}, sc \in {0, 2}, f \in {0, 1}}

InitCheckpoint ==
    /\ config \in {c \in BatchConfig :
                      /\ c.max_retries = 1 /\ c.checkpoint_interval = 1
                      /\ c.include_dimensions /\ c.include_pcs
                      /\ ~c.include_bpi_is /\ ~c.include_tsk_11sv}
    /\ entry = "run_batch"
    /\ narratives = [k \in Keys |-> k]
    /\ runs = 0
    /\ pc = "idle"
    /\ resume = FALSE
    /\ checkpoint = NoCheckpoint
    /\ i = 1
    /\ processed_ids \in UNION {[1..n -> IdValues] : n \in 0..MaxIds}
    /\ progress \in Snapshots
    /\ group_id \in GroupIds
    /\ stage = 0
    /\ attempt = 0
    /\ qresult = None
    /\ response = "none"
    /\ result = NarrativeEvaluationResult
    /\ checkpoint_file = NoCheckpoint
    /\ db = NoDb
    /\ obs = NoObs({})
    /\ api_response = ApiResponse("raises", "missing", "missing", "missing", <<>>)
    /\ questionnaire_type = "PCS"
    /\ returned = Unreturned
    /\ NoScoreCalls
    /\ NoCheckpointCalls
    /\ NoTableCalls

\* _save_checkpoint(processed_ids, group_id): nothing without a configured
\* file, else write_text(json.dumps(checkpoint_data, indent=2))
SaveCheckpoint ==
    /\ file_text = NoFile
    /\ config.checkpoint_file
    /\ file_text' = dumps(processed_ids, group_id, progress)
    /\ UNCHANGED <<batchvars, runnervars, scorevars, loaded, tablevars>>

\* _load_checkpoint(): {} without a configured or existing file or when
\* the text does not parse, else json.loads(read_text())
LoadCheckpoint ==
    /\ ~loaded.bound
    /\ loaded' =
          IF ~config.checkpoint_file \/ file_text = NoFile THEN EmptyLoaded(FALSE)
          ELSE LET r == loads(file_text)
               IN  IF r.ok THEN [bound |-> TRUE, read |-> TRUE, empty |-> FALSE,
                                 data |-> r.val]
                   ELSE EmptyLoaded(TRUE)
    /\ UNCHANGED <<batchvars, runnervars, scorevars, file_text, tablevars>>

NextCheckpoint ==
    \/ SaveCheckpoint
    \/ LoadCheckpoint

SpecCheckpoint == InitCheckpoint /\ [][NextCheckpoint]_vars

\* ------------------------------------------------ SpecGroups
\* Up to MaxUpdates calls of update_user_experiment_groups, by any user and
\* with any list of up to two group ids, on a database that holds some of
\* the groups a caller may name.
InitGroups ==
    /\ BatchAtRest
    /\ api_response = ApiResponse("raises", "missing", "missing", "missing", <<>>)
    /\ questionnaire_type = "PCS"
    /\ returned = Unreturned
    /\ NoScoreCalls
    /\ NoCheckpointCalls
    /\ experiment_groups \in SUBSET NamedGroups
    /\ links = <<>>
    /\ update = NoUpdate
    /\ NoNarrativeCalls

UpdateUserExperimentGroups(user_id, group_ids) ==
    /\ update.n < MaxUpdates
    /\ LET r == update_user_experiment_groups(links, experiment_groups,
                                              user_id, group_ids)
       IN  /\ links' = r.links
           /\ update' = [n |-> update.n + 1, user_id |-> user_id,
                         group_ids |-> group_ids, raised |-> r.raised,
                         before |-> links]
    /\ UNCHANGED <<batchvars, runnervars, scorevars, textvars, experiment_groups,
                   narrative_table, callers>>

NextGroups ==
    \E u \in Users :
        \E ids \in UNION {[1..n -> NamedGroups] : n \in 0..2} :
            UpdateUserExperimentGroups(u, ids)

SpecGroups == InitGroups /\ [][NextGroups]_vars

\* ------------------------------------------------ SpecNarratives
\* Two processes call DatabaseManager.create_narrative, each up to
\* MaxCreates times, on one database; each call is a session of its own that
\* reads the maximum id and then commits the insert of max + 1.  The table's
\* primary key rejects the commit of an id that is already there.
InitNarratives ==
    /\ BatchAtRest
    /\ api_response = ApiResponse("raises", "missing", "missing", "missing", <<>>)
    /\ questionnaire_type = "PCS"
    /\ returned = Unreturned
    /\ NoScoreCalls
    /\ NoCheckpointCalls
    /\ experiment_groups = {}
    /\ links = <<>>
    /\ update = NoUpdate
    /\ narrative_table \in {1..n : n \in 0..2}
    /\ callers = [p \in Callers |-> NoCaller]

narrativeframe == <<batchvars, runnervars, scorevars, textvars,
                    experiment_groups, links, update>>

\* max_id = session.exec(select(func.max(...))).first() or 0; next_id = max_id + 1
ReadMax(p) ==
    /\ callers[p].pc = "idle"
    /\ callers[p].calls < MaxCreates
    /\ callers' = [callers EXCEPT ![p].pc = "read",
                                  ![p].next_id = max_id(narrative_table) + 1,
                                  ![p].calls = @ + 1]
    /\ UNCHANGED <<narrativeframe, narrative_table>>

\* session.add(narrative); session.commit(); return narrative.narrative_id
InsertNarrative(p) ==
    /\ callers[p].pc = "read"
    /\ callers[p].next_id \notin narrative_table
    /\ narrative_table' = narrative_table \cup {callers[p].next_id}
    /\ callers' = [callers EXCEPT ![p].pc = "idle",
                                  ![p].returned = @ \cup {callers[p].next_id}]
    /\ UNCHANGED narrativeframe

\* session.commit() raises IntegrityError: the primary key is taken.
InsertNarrativeRaises(p) ==
    /\ callers[p].pc = "read"
    /\ callers[p].next_id \in narrative_table
    /\ callers' = [callers EXCEPT ![p].pc = "idle", ![p].raised = TRUE]
    /\ UNCHANGED <<narrativeframe, narrative_table>>

NextNarratives ==
    \E p \in Callers :
        \/ ReadMax(p)
        \/ InsertNarrative(p)
        \/ InsertNarrativeRaises(p)

SpecNarratives == InitNarratives /\ [][NextNarratives]_vars

TypeOK ==
    /\ pc \in {"idle", "loop", "create", "register", "dim_call", "dim_save_rr",
               "dim_save_eval", "dim_status", "q_attempt", "q_save",
               "q_save_eval", "count", "except", "final_checkpoint",
               "conclude", "returned", "raised", "crashed"}
    /\ runs \in 0..MaxRuns
    /\ stage \in 0..5

\* ======================================================================
\* Properties
\* ======================================================================

\* The invocation is inside the per-narrative step for Key.
StepPcs == {"create", "register", "dim_call", "dim_save_rr", "dim_save_eval",
            "dim_status", "q_attempt", "q_save", "q_save_eval", "count", "except"}

\* The invocation is at or past a call of the model client for Key.
CallPcs == {"dim_call", "dim_save_rr", "dim_save_eval", "dim_status",
            "q_attempt", "q_save", "q_save_eval"}

Occurrences(seq, k) == Cardinality({n \in 1..Len(seq) : seq[n] = k})

\* The invocation resumes from the file of an invocation that was killed
\* after it had handled at least one narrative.
ResumedAfterKill ==
    resume /\ config.checkpoint_file /\ config.checkpoint_interval >= 1
           /\ obs.prev # {}

C2_CheckpointedIdsUntouched ==
    (resume /\ checkpoint.exists) =>
        /\ pc \in StepPcs => Key \notin Range(checkpoint.processed_ids)
        /\ \A k \in Range(checkpoint.processed_ids) :
              Occurrences(processed_ids, k) = Occurrences(checkpoint.processed_ids, k)

\* C2 witness: a resumed run has passed the whole input, which holds an id
\* of the loaded checkpoint.
C2_Witness ==
    /\ pc = "final_checkpoint"
    /\ resume
    /\ checkpoint.exists
    /\ Range(checkpoint.processed_ids) \cap Range(narratives) # {}

\* C3 (as stated): in a run resumed from a checkpoint, successful and failed
\* continue from the checkpoint's progress snapshot, and
\* processed = successful + failed after every narrative and in the
\* checkpoint the run writes.
C3_CountersContinue ==
    (resume /\ checkpoint.exists /\ pc \in {"loop", "final_checkpoint", "conclude", "returned"}) =>
        /\ progress.successful >= checkpoint.progress.successful
        /\ progress.failed >= checkpoint.progress.failed
        /\ progress.processed = progress.successful + progress.failed
        /\ checkpoint_file.progress.processed =
              checkpoint_file.progress.successful + checkpoint_file.progress.failed

\* C4 (as stated): for a narrative the loop has just handled, processed grew
\* by exactly 1 and exactly one of successful / failed grew by 1: successful
\* if the dimension evaluation or PCS succeeded, failed otherwise, whatever
\* BPI-IS and TSK-11SV did.
C4_CountedOnce ==
    (pc = "loop" /\ obs.last # "none") =>
        LET ok == result.dimension_success
                  \/ (result.q["PCS"].bound /\ result.q["PCS"].success)
        IN  /\ progress.processed = obs.before.processed + 1
            /\ progress.successful = obs.before.successful + (IF ok THEN 1 ELSE 0)
            /\ progress.failed = obs.before.failed + (IF ok THEN 0 ELSE 1)

\* C5: when no attempt raises out of run_questionnaire, the retry wrapper
\* has called the model client once per attempt made; it returns at the
\* first successful attempt j with exactly j calls made, and when every
\* attempt fails it returns a failed result after exactly max_retries calls
\* (it raises only if no attempt returned anything).  Whatever the
\* attempts do, it never makes more than max_retries calls.
C5_RetryCallCount ==
    /\ (pc = "q_attempt" /\ ~obs.qraised) =>
          obs.calls = attempt /\ attempt <= config.max_retries
    /\ (pc = "q_save" /\ ~obs.qraised /\ qresult.success) =>
          obs.calls = attempt + 1 /\ obs.calls <= config.max_retries
                                  /\ qresult.attempt = obs.calls
    /\ (pc = "q_save" /\ ~obs.qraised /\ ~qresult.success) =>
          obs.calls = config.max_retries /\ qresult.bound
    /\ (pc = "except" /\ obs.exc = "unbound_result") => obs.calls = 0
    /\ pc \in {"q_attempt", "q_save"} => obs.calls <= config.max_retries

\* C5 witnesses: every attempt failed and the wrapper returned after
\* max_retries = 2 calls.
C5_Witness ==
    /\ pc = "q_save"
    /\ ~obs.qraised
    /\ ~qresult.success
    /\ config.max_retries = 2
    /\ obs.calls = 2

\* C6 (as stated): for every max_retries (0 included) and every sequence of
\* attempt outcomes (raising attempts included) the retry wrapper does not
\* raise, and a failed result it returns is the final attempt's.
C6_NeverRaises ==
    /\ ~(pc = "except" /\ obs.exc = "unbound_result")
    /\ (pc = "q_save" /\ ~qresult.success) => qresult.attempt = config.max_retries

C8_PeriodicCheckpoint ==
    (/\ pc = "loop"
     /\ obs.last # "none"
     /\ config.checkpoint_file
     /\ config.checkpoint_interval >= 1
     /\ progress.processed % config.checkpoint_interval = 0) =>
        checkpoint_file = checkpoint_data(processed_ids, group_id, progress)

\* C9: once an invocation with a checkpoint file configured has marked its
\* group concluded (in particular when it has returned), the file lists every
\* id handled in this run and every id of the checkpoint it resumed from,
\* and carries the run's group_id.
C9_FinalCheckpoint ==
    (config.checkpoint_file /\ (pc = "returned" \/ obs.concluded > 0)) =>
        /\ checkpoint_file.exists
        /\ obs.handled \subseteq Range(checkpoint_file.processed_ids)
        /\ Range(checkpoint.processed_ids) \subseteq Range(checkpoint_file.processed_ids)
        /\ checkpoint_file.processed_ids = processed_ids
        /\ checkpoint_file.group_id = group_id

\* C9 witness: a run that resumed from a checkpoint listing a narrative has
\* handled another one through the except clause and returned.
C9_Witness ==
    /\ pc = "returned"
    /\ config.checkpoint_file
    /\ resume
    /\ checkpoint.processed_ids # <<>>
    /\ obs.handled # {}
    /\ progress.failed > 0

\* C10 (as stated): an invocation marks its group concluded only after the
\* last narrative, exactly once when it returns, and also when the write of
\* the final checkpoint fails.
C10_ConcludedOnce ==
    /\ obs.concluded > 0 => i > Len(narratives)
    /\ pc = "returned" => obs.concluded = 1
    /\ (pc = "raised" /\ obs.exc = "final_save_checkpoint") => obs.concluded = 1

\* C11: an invocation that resumes from a loaded checkpoint registers no
\* experiment group and registers its experiments under the checkpoint's
\* group_id; an invocation that does not resume (resume=False, or no
\* checkpoint could be loaded) has registered exactly one new group, the
\* newest one, before its loop starts, and registers its experiments under it.
C11_GroupReusedOrCreatedOnce ==
    (Active \/ pc = "returned") =>
        /\ (resume /\ checkpoint.exists) =>
              /\ obs.groups = 0
              /\ group_id = checkpoint.group_id
              /\ checkpoint.group_id \in 1..db.groups
        /\ ~(resume /\ checkpoint.exists) =>
              /\ obs.groups = 1
              /\ group_id = db.groups
        /\ db.experiment.exists => db.experiment.group = group_id

\* C11 witness: a resumed invocation has registered an experiment while a
\* later group than the checkpoint's could not exist, and none was added.
C11_Witness ==
    /\ pc = "count"
    /\ resume
    /\ checkpoint.exists
    /\ db.experiment.exists
    /\ db.experiment.group = checkpoint.group_id
    /\ obs.groups = 0

\* The exceptions raised before process_single_narrative is called.
SetupErrors == {"create_narrative", "register_new_experiment"}

\* C12: when create_narrative or register_new_experiment raises for a
\* narrative, control is in the except clause of the loop with no model call
\* made and no stage started; once the clause has run, processed and failed
\* are each 1 higher than before the narrative and successful is unchanged,
\* and the loop is at the next narrative (the invocation raises only if the
\* progress callback called by the except clause raises).
C12_SetupErrorCountedFailed ==
    /\ (pc = "except" /\ obs.exc \in SetupErrors) =>
          obs.calls = 0 /\ stage = 0 /\ ~db.experiment.exists
    /\ (pc = "loop" /\ obs.last = "raised" /\ obs.exc \in SetupErrors) =>
          /\ progress.processed = obs.before.processed + 1
          /\ progress.failed = obs.before.failed + 1
          /\ progress.successful = obs.before.successful
          /\ obs.calls = 0
          /\ stage = 0
    /\ (pc = "raised" /\ obs.exc \in SetupErrors) => obs.last = "raised"

\* C12 witness: register_new_experiment raised for the first narrative and
\* the loop stands at the second one.
C12_Witness ==
    /\ pc = "loop"
    /\ obs.last = "raised"
    /\ obs.exc = "register_new_experiment"
    /\ i = 2
    /\ i <= Len(narratives)
    /\ progress.failed = 1

\* C13 (as stated): when a persistence write raised while a narrative was
\* processed (save_request_response, save_evaluation_result,
\* update_experiment_status, save_questionnaire_result), then once the loop
\* has handled the narrative it is counted in failed and not in successful.
C13_PersistenceErrorCountedFailed ==
    (pc = "loop" /\ obs.last # "none" /\ obs.persist) =>
        /\ progress.failed > obs.before.failed
        /\ progress.successful = obs.before.successful

\* C14 (as stated): with at least one attempt allowed and every attempt
\* reaching the model client, whatever the model client raises or returns,
\* process_single_narrative raises only if a persistence call raised.
C14_ModelFailuresNeverRaise ==
    (/\ pc = "except"
     /\ stage \in 1..4
     /\ config.max_retries >= 1
     /\ ~obs.qraised) => obs.persist

\* The BatchConfig toggle of the stage that produces result type t.
Toggle(t) ==
    CASE t = "dimensions" -> config.include_dimensions
      [] t = "PCS"        -> config.include_pcs
      [] t = "BPI-IS"     -> config.include_bpi_is
      [] t = "TSK-11SV"   -> config.include_tsk_11sv

\* The step invokes the model client.
IsCall == obs'.ncalls = obs.ncalls + 1

\* C15: every model call is made in an enabled stage, and the stage of a call
\* is never before the stage of the previous call for the same narrative, in
\* the order dimensions, PCS, BPI-IS, TSK-11SV (so the calls of a stage, its
\* retries included, are over when the next stage calls); a call is made for
\* a narrative only when every narrative before it in the input has been
\* handled and it has not.
C15_StageOrder ==
    [][IsCall =>
          /\ stage \in 1..4
          /\ Toggle(Stages[stage])
          /\ pc = (IF stage = 1 THEN "dim_call" ELSE "q_attempt")
          /\ stage >= obs.callstage
          /\ obs.callstage # 0 => Toggle(Stages[obs.callstage])
          /\ Key \notin Range(processed_ids)
          /\ \A k \in 1..(i - 1) : narratives[k] \in Range(processed_ids)]_vars

\* C15 witness: for the second narrative, with BPI-IS switched off, the
\* dimension call, a PCS call and then a TSK-11SV call have been made.
C15_Witness ==
    /\ i = 2
    /\ config.include_dimensions
    /\ config.include_pcs
    /\ ~config.include_bpi_is
    /\ obs.callstage = 4
    /\ obs.ncalls = 3
    /\ pc = "q_save"

\* C16: when process_single_narrative has returned for a narrative for which
\* every attempt reached the model and every model call succeeded (hence on
\* its first attempt) and no write raised, it has made exactly one model call
\* per enabled stage, and the experiment has exactly one evaluation-result
\* row per enabled stage (one questionnaire row per enabled questionnaire,
\* one request/response row if dimensions is enabled) and no row of a
\* disabled stage.
C16_OneCallOneRowPerStage ==
    (pc = "count" /\ ~obs.flawed /\ ~obs.persist) =>
        /\ obs.ncalls = Cardinality({t \in ResultTypes : Toggle(t)})
        /\ \A t \in ResultTypes :
              db.experiment.evaluations[t] = IF Toggle(t) THEN 1 ELSE 0
        /\ \A t \in QTypes :
              db.experiment.questionnaires[t] = IF Toggle(t) THEN 1 ELSE 0
        /\ db.experiment.requests = IF Toggle("dimensions") THEN 1 ELSE 0

\* C16 witness: dimensions and PCS enabled, BPI-IS and TSK-11SV disabled,
\* both calls succeeded at once: 2 calls and 2 evaluation-result rows.
C16_Witness ==
    /\ pc = "count"
    /\ ~obs.flawed
    /\ ~obs.persist
    /\ config.include_dimensions
    /\ config.include_pcs
    /\ ~config.include_bpi_is
    /\ ~config.include_tsk_11sv
    /\ obs.ncalls = 2
    /\ db.experiment.evaluations["dimensions"] = 1
    /\ db.experiment.evaluations["PCS"] = 1
    /\ db.experiment.evaluations["BPI-IS"] = 0
    /\ db.experiment.evaluations["TSK-11SV"] = 0

\* A stage of the narrative in hand, before the one that has just called the
\* model, that was enabled and came back with a result.
EarlierWithResult(s) ==
    /\ s \in 1..4
    /\ obs.callstage = stage
    /\ s < stage
    /\ Toggle(Stages[s])
    /\ IF s = 1 THEN ~result.dimension_error ELSE result.q[Stages[s]].bound

Written(s) ==
    IF s = 1
    THEN ~result.dimension_error =>
            /\ db.experiment.requests = 1
            /\ db.experiment.evaluations["dimensions"] = 1
    ELSE LET t == Stages[s]
             n == IF result.q[t].bound /\ result.q[t].success THEN 1 ELSE 0
         IN  /\ db.experiment.questionnaires[t] = n
             /\ db.experiment.evaluations[t] = n

C18_DelayBetweenCalls ==
    [][(IsCall /\ obs.ncalls > 0) => "delay_between_calls" \in obs.slept]_vars

\* C18 (amended): a model call that follows an earlier call of the same
\* questionnaire stage (a retry) is made after a sleep of retry_delay and no
\* sleep of delay_between_calls; a model call that follows a call of an
\* earlier stage of the same narrative is made after a sleep of
\* delay_between_calls.
C18_RetryDelayThenStageDelay ==
    [][(IsCall /\ obs.ncalls > 0) =>
          IF obs.callstage = stage
          THEN obs.slept = {"retry_delay"}
          ELSE "delay_between_calls" \in obs.slept]_vars

\* C18 witness: BPI-IS has made its second call, a retry, after calls of
\* earlier stages of the narrative.
C18_Witness ==
    /\ stage = 3
    /\ obs.callstage = 3
    /\ obs.calls = 2
    /\ obs.ncalls >= 3
    /\ obs.slept = {}

\* The response has a message whose content is missing, null, empty or
\* whitespace only.
NoTextContent(r) ==
    /\ r.outcome = "returns"
    /\ r.choices = "list"
    /\ r.message = "dict"
    /\ \/ r.content \in {"missing", "null"}
       \/ r.content = "str" /\ \A k \in 1..Len(r.text) : r.text[k] = "ws"

\* C19 (as stated): for every questionnaire type, when the model response
\* carries no text content, run_questionnaire returns success=False with
\* error exactly "Model returned empty response".
C19_EmptyContent ==
    (returned.bound /\ NoTextContent(api_response)) =>
        /\ ~returned.success
        /\ returned.error = "Model returned empty response"

\* The JSON value the model output parses to once the fences and the text
\* around the outermost braces are dropped ("JSONDecodeError" if none).
Document(r) ==
    IF r.outcome = "returns" /\ r.choices = "list" /\ r.message = "dict"
       /\ r.content = "str"
    THEN json_loads(extract_json_from_text(r.text))
    ELSE "JSONDecodeError"

\* The JSON objects with a 'scores' mapping (PCS) / a 'responses' list.
Shaped(qt) ==
    IF qt = "PCS" THEN {"{scores:{}}", "{scores:{},responses:[]}"}
    ELSE {"{responses:[]}", "{scores:{},responses:[]}"}

\* C20: a QuestionnaireResult returned by run_questionnaire has success=True
\* exactly when the model output parsed to a JSON object with a 'scores'
\* mapping (PCS) or a 'responses' list (BPI-IS, TSK-11SV); with success=True
\* the error is None and the data is that object, with success=False the
\* data is empty and the error is not None.
C20_SuccessIffShaped ==
    returned.bound =>
        /\ returned.success <=> Document(api_response) \in Shaped(questionnaire_type)
        /\ returned.success =>
              /\ returned.error = NoError
              /\ returned.data = Document(api_response)
        /\ ~returned.success =>
              /\ returned.data = EmptyDict
              /\ returned.error # NoError

\* C20 witness: a fenced answer with a 'responses' list was accepted for
\* TSK-11SV.
C20_Witness ==
    /\ returned.bound
    /\ returned.success
    /\ questionnaire_type = "TSK-11SV"
    /\ api_response.text = <<"fence_json", "{responses:[]}", "fence">>

\* C21: a dimension-evaluation model call that has returned a response is
\* followed by exactly one save_request_response write for the experiment,
\* issued before the content is parsed (no parse outcome exists while the
\* write is pending), whether the content then parses, fails to parse or is
\* empty; the write adds one row unless it raises; when the model call
\* raised, no write is issued and the experiment has no request/response row.
C21_RequestResponseSavedBeforeParse ==
    /\ pc = "dim_save_rr" =>
          /\ obs.dim = "returned"
          /\ obs.rr = 0
          /\ db.experiment.requests = 0
          /\ ~result.dimension_success
          /\ ~result.dimension_error
    /\ (obs.dim = "returned" /\ pc # "dim_save_rr") =>
          /\ obs.rr = 1
          /\ \/ db.experiment.requests = 1
             \/ /\ db.experiment.requests = 0
                /\ obs.persist
                /\ result.dimension_error
    /\ result.dimension_success => obs.rr = 1 /\ db.experiment.requests = 1
    /\ obs.dim = "raised" => obs.rr = 0 /\ db.experiment.requests = 0
    /\ obs.dim = "none" => obs.rr = 0 /\ db.experiment.requests = 0

\* C21 witness: the content of the response did not parse, and the
\* request/response row is there while the PCS stage runs.
C21_Witness ==
    /\ stage = 2
    /\ obs.dim = "returned"
    /\ ~result.dimension_success
    /\ ~result.dimension_error
    /\ obs.rr = 1
    /\ db.experiment.requests = 1

\* C22: for every PCS scores mapping whose keys are item numbers within
\* 1..13 (any of them missing), the rumination, magnification and
\* helplessness sums of calculate_pcs_subscales add up to
\* calculate_pcs_total_score of the same result; the three item sets are
\* pairwise disjoint and together they are exactly the items 1..13.
C22_PcsSubscalesAddUp ==
    /\ (computed.bound /\ questionnaire_type = "PCS") =>
          computed.subscales.rumination + computed.subscales.magnification
             + computed.subscales.helplessness = computed.total
    /\ rumination_items \cap magnification_items = {}
    /\ rumination_items \cap helplessness_items = {}
    /\ magnification_items \cap helplessness_items = {}
    /\ rumination_items \cup magnification_items \cup helplessness_items = PcsItems

\* C22 witness: the scores of a result with items 7, 9 and 12 missing among
\* others, item 13 answered 2.5 and item 1 answered 3: total 5, of which 2
\* is magnification and 3 helplessness.
C22_Witness ==
    /\ computed.bound
    /\ questionnaire_type = "PCS"
    /\ DOMAIN scores = {1, 13}
    /\ scores[13] = 5
    /\ scores[1] = 6
    /\ computed.total = 5
    /\ computed.subscales.magnification = 2
    /\ computed.subscales.helplessness = 3

\* The response list holds each of the ten BPI-IS codes once and nothing else.
TenCodesOnce ==
    /\ Len(responses) = 10
    /\ {responses[k].code : k \in 1..10} = interference_codes \cup intensity_codes

\* The values given for a set of codes, absent codes counting 0; a code given
\* more than once counts with its last value.
ValuesOf(codes) ==
    SumOver([c \in codes |-> scores_by_code(responses, c)], codes)

\* C23 (as stated): calculate_bpi_is_subscales returns the totals of the
\* interference and of the intensity values, and averages (kept in
\* hundredths) equal to total / 6 and total / 4.
C23_BpiAveragesExact ==
    (computed.bound /\ questionnaire_type = "BPI-IS") =>
        /\ computed.subscales.interference_total = ValuesOf(interference_codes)
        /\ computed.subscales.intensity_total = ValuesOf(intensity_codes)
        /\ 6 * computed.subscales.interference_avg
              = 100 * computed.subscales.interference_total
        /\ 4 * computed.subscales.intensity_avg
              = 100 * computed.subscales.intensity_total

\* |avg - total / n| <= 0.005, avg in hundredths
Rounded(avg, total, n) ==
    /\ 2 * (n * avg - 100 * total) <= n
    /\ 2 * (100 * total - n * avg) <= n

\* C23 (amended): interference_total and intensity_total are the sums of the
\* values of the 6 interference and of the 4 intensity codes (absent codes
\* counting 0, a repeated code counting with its last value);
\* interference_avg is interference_total / 6 rounded to two decimals and
\* intensity_avg is intensity_total / 4, which two decimals hold exactly;
\* interference values 5,5,5,5,5,5 with intensity values 10,0,10,0 give
\* totals 30 and 20 and averages 5.0 and 5.0; the two totals add up to
\* calculate_bpi_is_total_score when the list holds each of the ten codes
\* once and nothing else.
C23_BpiAveragesRounded ==
    (computed.bound /\ questionnaire_type = "BPI-IS") =>
        /\ computed.subscales.interference_total = ValuesOf(interference_codes)
        /\ computed.subscales.intensity_total = ValuesOf(intensity_codes)
        /\ Rounded(computed.subscales.interference_avg,
                   computed.subscales.interference_total, 6)
        /\ 4 * computed.subscales.intensity_avg
              = 100 * computed.subscales.intensity_total
        /\ (/\ TenCodesOnce
            /\ \A k \in 1..6 : responses[k].value = 5
            /\ <<responses[7].value, responses[8].value, responses[9].value,
                  responses[10].value>> = <<10, 0, 10, 0>>) =>
              /\ computed.subscales.interference_total = 30
              /\ computed.subscales.intensity_total = 20
              /\ computed.subscales.interference_avg = 500
              /\ computed.subscales.intensity_avg = 500
        /\ TenCodesOnce =>
              computed.subscales.interference_total
                 + computed.subscales.intensity_total = computed.total

\* C23 witness: the ten codes once each, interference 5 throughout and
\* intensity 10, 0, 10, 0, have been scored: totals 30 and 20 of 50.
C23_Witness ==
    /\ computed.bound
    /\ questionnaire_type = "BPI-IS"
    /\ TenCodesOnce
    /\ computed.subscales.interference_total = 30
    /\ computed.subscales.intensity_total = 20
    /\ computed.subscales.interference_avg = 500
    /\ computed.total = 50

\* C24: _load_checkpoint called after _save_checkpoint wrote the file
\* returns the processed_ids that were saved, in the same order, the group_id
\* and the progress snapshot (total, processed, successful, failed).
C24_CheckpointRoundTrip ==
    (loaded.bound /\ loaded.read) =>
        /\ file_text = dumps(processed_ids, group_id, progress)
        /\ ~loaded.empty
        /\ {"processed_ids", "group_id", "progress"} \subseteq DOMAIN loaded.data
        /\ loaded.data["processed_ids"] = processed_ids
        /\ loaded.data["group_id"] = group_id
        /\ DOMAIN loaded.data["progress"] =
              {"total", "processed", "successful", "failed"}
        /\ loaded.data["progress"]["total"] = progress.total
        /\ loaded.data["progress"]["processed"] = progress.processed
        /\ loaded.data["progress"]["successful"] = progress.successful
        /\ loaded.data["progress"]["failed"] = progress.failed

\* C24 witness: processed_ids [3, 7, 9] and group_id 42 were saved and
\* loaded, with a progress snapshot of 3 processed out of 12.
C24_Witness ==
    /\ loaded.bound
    /\ loaded.read
    /\ ~loaded.empty
    /\ processed_ids = <<3, 7, 9>>
    /\ group_id = 42
    /\ progress = BatchProgress(12, 3, 2, 1)
    /\ loaded.data["processed_ids"] = <<3, 7, 9>>
    /\ loaded.data["group_id"] = 42

\* C25: an invocation of run_batch_with_existing_narratives creates no
\* narrative record; every experiment it registers is registered against a
\* narrative id of the input and tagged repeated = run_number; and it
\* registers at most one experiment per narrative id, also when the id
\* occurs several times in the input.
C25_ExistingNarrativesReused ==
    entry = "run_batch_with_existing_narratives" =>
        /\ pc # "create"
        /\ obs.created = 0
        /\ ~obs.twice
        /\ db.experiment.exists =>
              /\ pc \in StepPcs => db.experiment.narrative = Key
              /\ db.experiment.narrative \in Range(narratives)
              /\ db.experiment.repeated = RunNumber

\* C25 witness: the input names the same narrative id twice; the loop has
\* passed both entries with one experiment registered.
C25_Witness ==
    /\ entry = "run_batch_with_existing_narratives"
    /\ narratives[1] = narratives[2]
    /\ pc = "final_checkpoint"
    /\ obs.handled = {narratives[1]}
    /\ ~obs.twice
    /\ progress.successful = 1
    /\ progress.processed = 1

\* C26: after a call of update_user_experiment_groups(user, ids) that
\* returned, get_user_experiment_groups(user) gives exactly the ids as a set
\* (nothing when ids is empty), whatever the user was assigned before, and
\* every id names an existing group; the call raises ValueError exactly when
\* an id names no existing experiment group, and then every assignment is as
\* it was before the call.
C26_UserGroupsReplaced ==
    update.n > 0 =>
        /\ update.raised = "none" =>
              /\ Range(get_user_experiment_groups(links, update.user_id))
                    = Range(update.group_ids)
              /\ Range(update.group_ids) \subseteq experiment_groups
        /\ update.raised = "ValueError" <=>
              ~(Range(update.group_ids) \subseteq experiment_groups)
        /\ update.raised = "ValueError" => links = update.before

\* C26 witness: a user who was assigned groups 1 and 2 has been reassigned
\* to group 3 alone.
C26_Witness ==
    /\ update.n = 2
    /\ update.raised = "none"
    /\ Range(get_user_experiment_groups(update.before, update.user_id)) = {1, 2}
    /\ update.group_ids = <<3>>
    /\ get_user_experiment_groups(links, update.user_id) = <<3>>

\* C27 (as stated): in every state of a batch run each narrative id occurs
\* at most once in processed_ids and progress.processed is at most
\* progress.total, whatever raises inside the per-narrative step (the
\* progress callback, the checkpoint write, the modulo by
\* checkpoint_interval = 0).
C27_ProcessedOnceAndBounded ==
    /\ \A k \in Keys : Occurrences(processed_ids, k) <= 1
    /\ progress.processed <= progress.total

\* C28 (as stated, its part about the counters): when an invocation started
\* with resume=False has returned, progress.processed = progress.total =
\* progress.successful + progress.failed, whatever failed on the way and
\* whether or not a narrative id occurs more than once in the input.
C28_ReturnedCountsEverything ==
    (pc = "returned" /\ ~resume) =>
        /\ progress.processed = progress.total
        /\ progress.total = progress.successful + progress.failed

\* C29 (as stated): when the loop has counted a narrative, the succeeded flag
\* of its experiment record is true exactly when the narrative was counted
\* in progress.successful, for every combination of the stage toggles and
\* every outcome of the dimension and PCS stages (no persistence write
\* having raised).
C29_SucceededFlagAgrees ==
    (pc = "loop" /\ obs.last = "counted" /\ db.experiment.exists /\ ~obs.persist) =>
        (db.experiment.succeeded
            <=> progress.successful = obs.before.successful + 1)

\* C30 (as stated): when two processes call create_narrative on the same
\* database at the same time, both calls succeed and the ids they return are
\* distinct: no call raises and no id is returned to both.
C30_ConcurrentCreatesSucceed ==
    /\ \A p \in Callers : ~callers[p].raised
    /\ callers["run_a"].returned \cap callers["run_b"].returned = {}

====
